---- MODULE Spec2Model ----
(***************************************************************************)
(* SeRFE dynamic sediment balance model (Scripts/dynamic_model.py).        *)
(*                                                                         *)
(* State: the output table outdf, the mutable network attributes (bed      *)
(* slope and floodplain thickness of the three scenarios), the pulse       *)
(* ledgers seg_dict / out_dict, and the position of run_model in its day   *)
(* loop, of run_first_order in its walk and of run_below_confluences in    *)
(* its scan.                                                               *)
(*                                                                         *)
(* Masses are integers.  The real-valued hydraulics (discharge, depth,     *)
(* transport capacity, migration rate, flow velocity, overbank volume      *)
(* split) are inputs of apply_to_reach drawn from the finite set the       *)
(* setup of the run allows for the reach; every mass computation that      *)
(* follows them is translated statement by statement.                      *)
(***************************************************************************)
EXTENDS Integers, Sequences, FiniteSets, TLC

None == -1            \* Python None for a segment id
Sentinel == -9999     \* "not yet computed" export value, also "no disturbance"

Scen == {"min", "mid", "max"}
MidOnly == {"mid"}

Max2(a, b) == IF a >= b THEN a ELSE b
Min2(a, b) == IF a <= b THEN a ELSE b

RECURSIVE SumSeq(_)
SumSeq(s) == IF s = <<>> THEN 0 ELSE Head(s) + SumSeq(Tail(s))

Last(s) == s[Len(s)]
Front(s) == SubSeq(s, 1, Len(s) - 1)

----------------------------------------------------------------------------
(* Topology index (network_topology.TopologyTools).  Reaches carry the     *)
(* hierarchical label chain.reach; net.chain[c] lists the segment ids of   *)
(* chain c in downstream order.  Every chain starts at a headwater; chain  *)
(* 1 runs to the outlet and every other chain ends where it joins another  *)
(* chain, at a confluence reach.                                           *)

Segs(net) == 0..(net.n - 1)

ChainOf(net, seg) == CHOOSE c \in 1..Len(net.chain) : \E p \in 1..Len(net.chain[c]) : net.chain[c][p] = seg
PosOf(net, seg) == CHOOSE p \in 1..Len(net.chain[ChainOf(net, seg)]) : net.chain[ChainOf(net, seg)][p] = seg

\* seg_id_from_rid('c.p')
seg_id_from_rid(net, c, p) ==
    IF c \in 1..Len(net.chain) /\ p \in 1..Len(net.chain[c]) THEN net.chain[c][p] ELSE None

\* the reach labelled chain.(reach+1), or None at the end of the chain
get_next_reach(net, seg) == seg_id_from_rid(net, ChainOf(net, seg), PosOf(net, seg) + 1)

\* the first reach of chain+1, or None after the last chain
get_next_chain(net, seg) == seg_id_from_rid(net, ChainOf(net, seg) + 1, 1)

\* the immediate upstream reaches (None when absent)
find_us_seg(net, seg) == net.us[seg]
find_us_seg2(net, seg) == net.us2[seg]

\* the reach a reach drains into (None at the outlet)
ds_of(net, seg) ==
    IF \E d \in Segs(net) : seg \in {net.us[d], net.us2[d]}
    THEN CHOOSE d \in Segs(net) : seg \in {net.us[d], net.us2[d]}
    ELSE None

\* every reach downstream of seg; every reach upstream of seg
RECURSIVE find_all_ds(_, _)
find_all_ds(net, seg) ==
    IF ds_of(net, seg) = None THEN {}
    ELSE {ds_of(net, seg)} \cup find_all_ds(net, ds_of(net, seg))

find_all_us(net, seg) == {u \in Segs(net) : seg \in find_all_ds(net, u)}

----------------------------------------------------------------------------
(* Discharge (get_flow).  The hydrograph table H is a sequence of gauges    *)
(* [segid, regulated, DA, q]: q is the reading of the day asked for, segid  *)
(* is -9999 for a gauge off the network.                                    *)

Gauge(segid, regulated, DA, q) == [segid |-> segid, regulated |-> regulated, DA |-> DA, q |-> q]

GaugeSegs(H, idxs) == {H[j].segid : j \in idxs}
Regulated(H) == {j \in 1..Len(H) : H[j].regulated = 1}
Unregulated(H) == {j \in 1..Len(H) : H[j].regulated = 0}

\* the column gage_ds of __init__: the gauged reaches downstream of gauge g
gage_ds(net, H, g) ==
    IF H[g].segid = Sentinel THEN 0
    ELSE Cardinality(find_all_ds(net, H[g].segid) \cap GaugeSegs(H, 1..Len(H)))

\* the regulated loop appends the reading of gauge i
reg_counted(net, H, segid, i) ==
    \/ H[i].segid = segid
    \/ /\ H[i].segid \in find_all_us(net, segid)
       /\ Cardinality(find_all_ds(net, segid) \cap GaugeSegs(H, Regulated(H))) = gage_ds(net, H, i)

\* the unregulated loop appends the reading of gauge i
unreg_counted(net, H, segid, i) ==
    H[i].segid = segid \/ H[i].segid \in find_all_us(net, segid)

\* the gauges of idxs that pass the test, in index order
RECURSIVE Appended(_, _, _, _, _)
Appended(net, H, segid, i, reg) ==
    IF i > Len(H) THEN <<>>
    ELSE (IF reg /\ H[i].regulated = 1 /\ reg_counted(net, H, segid, i) THEN <<i>>
          ELSE IF ~reg /\ H[i].regulated = 0 /\ unreg_counted(net, H, segid, i) THEN <<i>>
          ELSE <<>>) \o Appended(net, H, segid, i + 1, reg)

RECURSIVE DrainedArea(_, _, _, _)
DrainedArea(net, H, segid, i) ==
    IF i > Len(H) THEN 0
    ELSE (IF H[i].regulated = 0 /\ H[i].segid # segid /\ H[i].segid \in find_all_us(net, segid)
          THEN H[i].DA ELSE 0) + DrainedArea(net, H, segid, i + 1)

\* get_flow up to the extrapolation: the gauges whose readings enter Q, the
\* sum of Q and the drainage area left for the extrapolated part
get_flow(net, H, segid) ==
    IF Len(H) > 1
    THEN LET from == Appended(net, H, segid, 1, TRUE) \o Appended(net, H, segid, 1, FALSE)
         IN  [segid |-> segid,
              from |-> from,
              sumQ |-> SumSeq([k \in 1..Len(from) |-> H[from[k]].q]),
              eff_da |-> net.eff_DA[segid] - DrainedArea(net, H, segid, 1)]
    ELSE [segid |-> segid, from |-> <<>>, sumQ |-> 0, eff_da |-> net.eff_DA[segid]]

----------------------------------------------------------------------------
(* Pulse ledgers.  A pulse is a Python list [mass, distance]; the same list *)
(* object can sit in an upstream out_dict and in a downstream seg_dict, so  *)
(* the ledgers hold references into a heap of pulses.                       *)
(* P = [heap |-> Seq of [m, d], seg_dict |-> [seg -> Seq of refs],          *)
(*      out_dict |-> [seg -> Seq of refs]]                                  *)

Pulse(m, d) == [m |-> m, d |-> d]

\* the list of lists a ledger denotes
Vals(heap, refs) == [k \in 1..Len(refs) |-> heap[refs[k]]]

Masses(heap, refs) == [k \in 1..Len(refs) |-> heap[refs[k]].m]

\* a new list object [m, d]
Alloc(P, pulse) == [P EXCEPT !.heap = Append(@, pulse)]
NewRef(P) == Len(P.heap) + 1

\* list.sort(key=takeSecond); Python's sort is stable
RECURSIVE InsertByDist(_, _, _)
InsertByDist(heap, sorted, r) ==
    IF sorted = <<>> THEN <<r>>
    ELSE IF heap[Last(sorted)].d <= heap[r].d THEN Append(sorted, r)
    ELSE Append(InsertByDist(heap, Front(sorted), r), Last(sorted))

RECURSIVE SortByDist(_, _)
SortByDist(heap, refs) ==
    IF refs = <<>> THEN <<>>
    ELSE InsertByDist(heap, SortByDist(heap, Front(refs)), Last(refs))

\* the out_dict entries of an upstream reach, none for None
OutOf(P, us) == IF us # None THEN P.out_dict[us] ELSE <<>>

\* SerfeModel.update_seg_dict; veld is vel*86400
update_seg_dict(P, net, segid, veld) ==
    LET store_tot == SumSeq(Masses(P.heap, P.seg_dict[segid]))
        store_sum == IF store_tot < 0 THEN 0 ELSE store_tot
        P1 == Alloc(P, Pulse(store_sum, veld - net.Length_m[segid]))
        merged == <<NewRef(P)>> \o OutOf(P, find_us_seg(net, segid))
                                \o OutOf(P, find_us_seg2(net, segid))
        sorted == SortByDist(P1.heap, merged)
    IN  IF SumSeq(Masses(P1.heap, sorted)) = 0
        THEN [Alloc(P1, Pulse(0, 0)) EXCEPT !.seg_dict[segid] = <<NewRef(P1)>>]
        ELSE [P1 EXCEPT !.seg_dict[segid] = sorted]

\* one iteration of "for i in self.seg_dict[segid]"; a = [P, qs_out, transport]
PropagateEntry(a, net, segid, r) ==
    LET i == a.P.heap[r]
        L == net.Length_m[segid]
        moved(m) == [Alloc(a.P, Pulse(m, i.d - L)) EXCEPT
                        !.out_dict[segid] = Append(@, NewRef(a.P))]
    IN  IF a.transport >= i.m
        THEN IF i.d - L > 0
             THEN \* i[0] = 0 comes before transport = transport - i[0]
                  [P |-> [moved(i.m) EXCEPT !.heap[r].m = 0],
                   qs_out |-> a.qs_out + i.m,
                   transport |-> a.transport - 0]
             ELSE a
        ELSE [P |-> [moved(a.transport) EXCEPT !.heap[r].m = i.m - a.transport],
              qs_out |-> a.qs_out + a.transport,
              transport |-> 0]

RECURSIVE PropagateLoop(_, _, _, _, _)
PropagateLoop(a, net, segid, refs, k) ==
    IF k > Len(refs) THEN a
    ELSE PropagateLoop(PropagateEntry(a, net, segid, refs[k]), net, segid, refs, k + 1)

\* SerfeModel.pulse_propagate; returns [P, qs_out, transport]
pulse_propagate(P, net, segid, transport) ==
    IF Vals(P.heap, P.seg_dict[segid]) # <<Pulse(0, 0)>>
    THEN LET P0 == [P EXCEPT !.out_dict[segid] = <<>>]
             a0 == [P |-> P0, qs_out |-> 0, transport |-> transport]
         IN  IF transport > 0
             THEN PropagateLoop(a0, net, segid, P0.seg_dict[segid], 1)
             ELSE a0
    ELSE [P |-> P, qs_out |-> 0, transport |-> transport]

(* Pulses no ledger refers to any more are unreachable Python objects; the *)
(* heap is renumbered to the referenced pulses, in ledger order.           *)
RECURSIVE AllRefs(_, _, _)
AllRefs(P, s, n) ==
    IF s >= n THEN <<>> ELSE P.seg_dict[s] \o P.out_dict[s] \o AllRefs(P, s + 1, n)

RECURSIVE Uniq(_)
Uniq(s) ==
    IF s = <<>> THEN <<>>
    ELSE LET u == Uniq(Front(s))
         IN  IF \E k \in 1..Len(u) : u[k] = Last(s) THEN u ELSE Append(u, Last(s))

Collect(P, n) ==
    LET live == Uniq(AllRefs(P, 0, n))
        new(r) == CHOOSE k \in 1..Len(live) : live[k] = r
        ren(refs) == [k \in 1..Len(refs) |-> new(refs[k])]
    IN  [heap |-> [k \in 1..Len(live) |-> P.heap[live[k]]],
         seg_dict |-> [s \in DOMAIN P.seg_dict |-> ren(P.seg_dict[s])],
         out_dict |-> [s \in DOMAIN P.out_dict |-> ren(P.out_dict[s])]]

----------------------------------------------------------------------------
(* The reach mass balance, SerfeModel.apply_to_reach.                      *)
(* R = [outdf, Slope, fpt, P]: the output table, the network's Slope_* and *)
(* fpt_* columns and the pulse ledgers.                                    *)
(* h = [flow, qs_dir, cap, depth, mig, fp_ratio, veld]: the hydraulics of  *)
(* the reach on the day: discharge, hillslope delivery (the day's gamma    *)
(* draw), transport capacity, Manning depth, floodplain width migrated in  *)
(* a day (mig_rate*86400*Length_m), overbank volume split and vel*86400    *)
(* (cap, depth, mig and fp_ratio per scenario).                            *)

bulk_dens == 1        \* default of the constructor
FpVDen == 100         \* fp_v_ratio = min(w_s / v_fp, 0.01), at its cap 1/100

Ratio(n, d) == [n |-> n, d |-> d]

\* SerfeModel.get_upstream_qs, one scenario
get_upstream_qs(R, net, time, segid, s) ==
    LET us_seg == find_us_seg(net, segid)
        us_seg2 == find_us_seg2(net, segid)
        usqs1 == IF us_seg # None THEN R.outdf[time][us_seg].Qs_out[s] ELSE 0
        usqs2 == IF us_seg2 # None THEN R.outdf[time][us_seg2].Qs_out[s] ELSE 0
    IN  usqs1 + usqs2

\* the hillslope delivery that goes to the channel (lines 342-358)
qs_channel_of(net, segid, qs_dir) ==
    IF net.fp_area[segid] # 0
    THEN IF net.direct_DA[segid] <= 3
         THEN qs_dir * net.confine[segid]
         ELSE Max2((8 * qs_dir) \div 10, qs_dir * net.confine[segid])
    ELSE qs_dir

\* "if self.network.loc[segid, 'dist_start'] != -9999: if dist_start <= time"
disturbed(net, segid, time) ==
    net.dist_start[segid] # Sentinel /\ net.dist_start[segid] <= time

\* channel storage of the previous day (lines 369-381)
prev_ch_store_of(R, net, segid, time, s) ==
    IF time = 1
    THEN IF net.has_chan_store THEN net.chan_store[segid] ELSE 0
    ELSE R.outdf[time - 1][segid].Store_chan[s]

\* Slope + delta_h / Length_m, with delta_h of a storage change x
slope_plus(net, segid, slope, x) ==
    slope + (2 * x) \div (bulk_dens * net.w_bf[segid] * net.Length_m[segid] * net.Length_m[segid])

\* faulty variant of csr_of: supply over capacity
csr_flipped(cap, supply) ==
    IF supply = 0 THEN (IF cap > 0 THEN Ratio(1, cap) ELSE Ratio(1, 1))
    ELSE Ratio(supply, cap)

\* capacity-supply ratio with the zero-supply convention
csr_of(cap, supply) ==
    IF supply = 0 THEN (IF cap > 0 THEN Ratio(cap, 1) ELSE Ratio(1, 1))
    ELSE Ratio(cap, supply)

\* export of the transport-limited case: the low block adds the pulse
\* export to the remaining capacity, the mid and high blocks to the capacity
limited_export(s, cap, tr, po) == IF s = "min" THEN tr + po ELSE cap + po

\* the upstream input the overbank suspended-fraction adjustment reads
susp_input(qs_us, s) == qs_us["min"]

\* faulty variants of dam_override: every reach is at a dam; no reach is
dam_always(net, segid, qs_out) == 0
dam_never(net, segid, qs_out) == qs_out

\* faulty variant of store_delta_of: the storage change is never computed
store_delta_none(R, time, segid, s, store_tot) == 0

\* Store_delta of the day (lines 580-583 and their mid and high copies)
store_delta_of(R, time, segid, s, store_tot) ==
    IF time > 1 THEN store_tot - R.outdf[time - 1][segid].Store_tot[s] ELSE 0

\* faulty variant of fpt_written: the thickness is written for every reach
fpt_always(net, segid, fp_thick, old) == fp_thick

\* "if confine != 1: fpt_* = fp_thick_*" (lines 570-571, 692-693, 813-814)
fpt_written(net, segid, fp_thick, old) ==
    IF net.confine[segid] # 1 THEN fp_thick ELSE old

\* "if you are at a dam, qs_out = 0"
dam_override(net, segid, qs_out) ==
    LET next_reach == get_next_reach(net, segid)
    IN  IF next_reach # None /\ net.eff_DA[next_reach] < net.eff_DA[segid]
        THEN 0 ELSE qs_out

\* faulty variant of fp_recr_of: the bank migration term alone
fp_recr_unbounded(migrated, available) == migrated

\* fp_recr: the bank migration term, at most the floodplain storage
fp_recr_of(migrated, available) == Min2(migrated, available)

\* faulty variant of channel_store_of: the remainder is stored in every branch
channel_store_all(branch, lim_store) == lim_store

\* channel_store: the remainder where supply exceeds capacity, else 0.
channel_store_of(branch, lim_store) == IF branch = "limited" THEN lim_store ELSE 0

(* One scenario block (LOW / MID / HIGH CAPACITY CASE).                    *)
(* c = [qs_channel, qs_us, prev, tr, po, fp_store, fp_thick]: the values   *)
(* the prologue computed.                                                  *)
scenario_block(R, net, segid, time, h, s, c) ==
    LET supply == c.qs_channel + c.qs_us[s] + c.prev[s]
        cap == h.cap[s]
        tr == c.tr[s]
        po == c.po[s]
        fp_store0 == c.fp_store[s]
        fp_thick0 == c.fp_thick[s]
        slope0 == R.Slope[segid][s]
        unconfined == net.confine[segid] # 1
        fp_area == net.fp_area[segid]
        \* supply greater than capacity
        lim_out == limited_export(s, cap, tr, po)
        lim_remain == supply - lim_out
        lim_over == unconfined /\ ~(h.depth[s] < fp_thick0)
        lim_store == IF lim_over THEN lim_remain * (1 - h.fp_ratio[s]) ELSE lim_remain
        lim_fp_store == IF lim_over THEN fp_store0 + (lim_remain - lim_store) ELSE fp_store0
        lim_fp_thick == IF lim_over THEN lim_fp_store \div (fp_area * bulk_dens) ELSE fp_thick0
        \* capacity greater than supply
        recr0 == fp_recr_of(h.mig[s] * fp_thick0 * bulk_dens,
                            fp_area * R.fpt[segid][s] * bulk_dens)
        cap_over == ~(h.depth[s] < fp_thick0)
        fp_recr == IF ~unconfined THEN 0
                   ELSE IF cap_over
                        THEN recr0 - (susp_input(c.qs_us, s) * h.fp_ratio[s]) \div FpVDen
                        ELSE recr0
        cap_out == supply + fp_recr + po
        cap_fp_store == fp_store0 - fp_recr
        cap_fp_thick == IF unconfined
                        THEN Max2(0, fp_thick0 - fp_recr \div (fp_area * bulk_dens))
                        ELSE fp_thick0
        branch == IF tr < supply - po THEN "limited"
                  ELSE IF tr > supply - po THEN "capacity" ELSE "balanced"
        qs_out == CASE branch = "limited" -> lim_out
                    [] branch = "capacity" -> cap_out
                    [] OTHER -> supply
        channel_store == channel_store_of(branch, lim_store)
        csr == CASE branch = "limited" -> csr_of(cap, supply)
                 [] branch = "capacity" -> csr_of(cap, supply + fp_recr)
                 [] OTHER -> Ratio(1, 1)
        fp_store == CASE branch = "limited" -> lim_fp_store
                      [] branch = "capacity" -> cap_fp_store
                      [] OTHER -> fp_store0
        fp_thick == CASE branch = "limited" -> lim_fp_thick
                      [] branch = "capacity" -> cap_fp_thick
                      [] OTHER -> fp_thick0
        store_tot == channel_store + fp_store
    IN  [branch |-> branch,
         supply |-> supply,
         cap |-> cap,
         po |-> po,
         tr |-> tr,
         fp_recr |-> IF branch = "capacity" THEN fp_recr ELSE 0,
         overbank |-> unconfined /\ ~(h.depth[s] < fp_thick0),
         us_read |-> {c.qs_us[s]} \cup
                     (IF branch = "capacity" /\ unconfined /\ cap_over
                      THEN {susp_input(c.qs_us, s)} ELSE {}),
         qs_out_raw |-> qs_out,
         qs_out |-> dam_override(net, segid, qs_out),
         csr |-> csr,
         channel_store |-> channel_store,
         store_tot |-> store_tot,
         store_delta |-> store_delta_of(R, time, segid, s, store_tot),
         slope |-> IF branch = "balanced" THEN slope0
                   ELSE slope_plus(net, segid, slope0, channel_store - c.prev[s]),
         fpt |-> fpt_written(net, segid, fp_thick, R.fpt[segid][s])]

\* the rows of the output table start as zeros (np.zeros((ydim, 19)))
ZeroRow ==
    [Q |-> 0,
     Qs |-> [s \in Scen |-> 0],
     Qs_out |-> [s \in Scen |-> 0],
     CSR |-> [s \in Scen |-> Ratio(0, 1)],
     Store_chan |-> [s \in Scen |-> 0],
     Store_tot |-> [s \in Scen |-> 0],
     Store_delta |-> [s \in Scen |-> 0]]

(* The prologue of apply_to_reach (lines 317-466): inputs, floodplain      *)
(* exchange, the pulse bookkeeping of a disturbed reach and the three      *)
(* pulse_propagate calls, in the order low, high, mid.  scens is the set   *)
(* of scenarios that are computed (all three in the program).              *)
reach_prologue(R, net, segid, time, h, scens) ==
    LET qs_us == [s \in Scen |-> get_upstream_qs(R, net, time, segid, s)]
        fp_area == net.fp_area[segid]
        qs_channel == qs_channel_of(net, segid, h.qs_dir)
        qs_fp == IF fp_area # 0 THEN h.qs_dir - qs_channel ELSE 0
        fp_store == [s \in Scen |->
                        IF fp_area # 0
                        THEN fp_area * R.fpt[segid][s] * bulk_dens + qs_fp ELSE 0]
        fp_thick == [s \in Scen |->
                        IF fp_area # 0
                        THEN R.fpt[segid][s] + qs_fp \div (fp_area * bulk_dens) ELSE 0]
        dist == disturbed(net, segid, time)
        \* self.seg_dict[segid].append([qs_channel, 0]); self.update_seg_dict(segid, vel)
        P1 == IF dist
              THEN update_seg_dict(
                       [Alloc(R.P, Pulse(qs_channel, 0)) EXCEPT
                           !.seg_dict[segid] = Append(@, NewRef(R.P))],
                       net, segid, h.veld)
              ELSE R.P
        prev == [s \in Scen |-> prev_ch_store_of(R, net, segid, time, s)]
        skip(P, s) == [P |-> P, qs_out |-> 0, transport |-> h.cap[s]]
        call(P, s) == IF dist /\ s \in scens
                      THEN pulse_propagate(P, net, segid, h.cap[s]) ELSE skip(P, s)
        a_min == call(P1, "min")
        a_max == call(a_min.P, "max")
        a_mid == call(a_max.P, "mid")
        a == [s \in Scen |-> CASE s = "min" -> a_min [] s = "max" -> a_max [] OTHER -> a_mid]
    IN  [qs_channel |-> qs_channel,
         qs_fp |-> qs_fp,
         qs_us |-> qs_us,
         prev |-> prev,
         fp_store |-> fp_store,
         fp_thick |-> fp_thick,
         tr |-> [s \in Scen |-> a[s].transport],
         po |-> [s \in Scen |-> a[s].qs_out],
         P1 |-> P1,
         P |-> a_mid.P]

\* the three scenario blocks of one evaluation
reach_blocks(R, net, segid, time, h, scens) ==
    LET c == reach_prologue(R, net, segid, time, h, scens)
    IN  [s \in Scen |-> scenario_block(R, net, segid, time, h, s, c)]

\* SerfeModel.apply_to_reach: the state after evaluating segid on day time
apply_to_reach(R, net, segid, time, h, scens) ==
    LET c == reach_prologue(R, net, segid, time, h, scens)
        b == [s \in Scen |-> scenario_block(R, net, segid, time, h, s, c)]
        old == R.outdf[time][segid]
        put(new, prior) == [s \in Scen |-> IF s \in scens THEN new[s] ELSE prior[s]]
        row == [Q |-> IF "min" \in scens THEN h.flow ELSE old.Q,
                Qs |-> put([s \in Scen |-> b[s].supply], old.Qs),
                Qs_out |-> put([s \in Scen |-> b[s].qs_out], old.Qs_out),
                CSR |-> put([s \in Scen |-> b[s].csr], old.CSR),
                Store_chan |-> put([s \in Scen |-> b[s].channel_store], old.Store_chan),
                Store_tot |-> put([s \in Scen |-> b[s].store_tot], old.Store_tot),
                Store_delta |-> put([s \in Scen |-> b[s].store_delta], old.Store_delta)]
    IN  [outdf |-> [R.outdf EXCEPT ![time][segid] = row],
         Slope |-> [R.Slope EXCEPT ![segid] = put([s \in Scen |-> b[s].slope], @)],
         fpt |-> [R.fpt EXCEPT ![segid] = put([s \in Scen |-> b[s].fpt], @)],
         P |-> Collect(c.P, net.n)]

----------------------------------------------------------------------------
(* The run: SerfeModel.run_model, run_first_order, run_below_confluences.  *)

VARIABLES
    net,        \* the setup: network, hydrograph length, allowed hydraulics
    time,       \* run_model's day counter
    pc,         \* "day", "first_order", "while", "for", "chain", "done"
    seg,        \* the walk's current segment, or None
    conf_list,  \* run_below_confluences' pending confluences
    idx,        \* position of "for x in conf_list" (0-based index of the next x)
    x,          \* the confluence the for loop holds
    full,       \* R of the program
    solo,       \* R of the same run computing the mid scenario only
    ret,        \* <<>> until run_model returns, then <<the value returned>>
    evals,      \* history: apply_to_reach calls per segment on the current day
    early,      \* history: segments evaluated today before an upstream reach
    scan_len,   \* history: len(conf_list) when the current scan began
    stalled,    \* history: the last scan of the day removed no confluence
    aux,        \* history: inputs and block results of every evaluation
    hydrographs, \* the gauge table
    flow_ret    \* <<>>, or <<what the last get_flow call computed>>

vars == <<net, time, pc, seg, conf_list, idx, x, full, solo, ret, evals, early, scan_len, stalled, aux,
          hydrographs, flow_ret>>

\* the state __init__ leaves (lines 67-92), with the network's columns
InitRun(n) ==
    [outdf |-> [t \in 1..n.total_t |-> [i \in Segs(n) |-> ZeroRow]],
     Slope |-> n.Slope,
     fpt |-> n.fpt,
     P |-> [heap |-> [i \in 1..n.n |-> Pulse(0, 0)],
            seg_dict |-> [i \in Segs(n) |-> <<i + 1>>],
            out_dict |-> [i \in Segs(n) |-> <<>>]]]

\* faulty variant of reset_day: the exports of the earlier days are reset too
reset_through(R, n, t) ==
    [R EXCEPT !.outdf =
        [d \in DOMAIN R.outdf |->
            IF d <= t
            THEN [i \in Segs(n) |-> [R.outdf[d][i] EXCEPT !.Qs_out = [s \in Scen |-> Sentinel]]]
            ELSE R.outdf[d]]]

\* "set qs_out initially to -9999" (lines 909-912)
reset_day(R, n, t) ==
    [R EXCEPT !.outdf[t] =
        [i \in Segs(n) |-> [@[i] EXCEPT !.Qs_out = [s \in Scen |-> Sentinel]]]]

\* the apply_to_reach call of a walk, on both runs, with its history
Evaluate(h) ==
    \E after \in {apply_to_reach(full, net, seg, time, h, Scen)},
       c \in {reach_prologue(full, net, seg, time, h, Scen)},
       b \in {reach_blocks(full, net, seg, time, h, Scen)} :
    \E first \in {pulse_propagate(c.P1, net, seg, h.cap["min"])},
       us_refs \in {OutOf(full.P, find_us_seg(net, seg))
                       \o OutOf(full.P, find_us_seg2(net, seg))} :
        /\ full' = after
        /\ solo' = apply_to_reach(solo, net, seg, time, h, MidOnly)
        /\ evals' = [evals EXCEPT ![seg] = @ + 1]
        /\ early' = IF \E u \in {find_us_seg(net, seg), find_us_seg2(net, seg)} \ {None} :
                          \E s \in Scen : full.outdf[time][u].Qs_out[s] = Sentinel
                    THEN early \cup {seg} ELSE early
        /\ aux' = [k \in DOMAIN aux \cup {<<time, seg>>} |->
                     IF k = <<time, seg>>
                     THEN [h |-> h,
                           b |-> b,
                           prev |-> c.prev,
                           qs_channel |-> c.qs_channel,
                           slope0 |-> full.Slope[seg],
                           fpt0 |-> full.fpt[seg],
                           slope1 |-> after.Slope[seg],
                           fpt1 |-> after.fpt[seg],
                           ledger_kept |-> after.P = full.P,
                           ledger0 |-> Vals(c.P1.heap, c.P1.seg_dict[seg]),
                           ledger1 |-> Vals(after.P.heap, after.P.seg_dict[seg]),
                           out1 |-> Vals(after.P.heap, after.P.out_dict[seg]),
                           trivial |-> Vals(c.P1.heap, c.P1.seg_dict[seg]) = <<Pulse(0, 0)>>,
                           remain |-> first.transport,
                           qs_fp |-> c.qs_fp,
                           dist |-> disturbed(net, seg, time),
                           resident |-> SumSeq(Masses(full.P.heap, full.P.seg_dict[seg]))
                                           + c.qs_channel,
                           merged |-> SumSeq(Masses(full.P.heap, us_refs)),
                           offered |-> Vals(full.P.heap, us_refs),
                           remerged |-> SelectSeq(us_refs,
                                            LAMBDA r : \E j \in 1..Len(full.P.seg_dict[seg]) :
                                                           full.P.seg_dict[seg][j] = r),
                           left |-> SumSeq(Masses(first.P.heap, first.P.seg_dict[seg])),
                           handed |-> SumSeq(Masses(first.P.heap, first.P.out_dict[seg])),
                           exported |-> first.qs_out]
                     ELSE aux[k]]

\* np.argsort(da_vals) over the confluence reaches (insertion sort below 16
\* elements: equal drainage areas keep index order)
RECURSIVE InsertByDA(_, _, _)
InsertByDA(n, sorted, i) ==
    IF sorted = <<>> THEN <<i>>
    ELSE IF n.Drain_Area[Last(sorted)] <= n.Drain_Area[i] THEN Append(sorted, i)
    ELSE Append(InsertByDA(n, Front(sorted), i), Last(sorted))

RECURSIVE SortedConfluences(_, _)
SortedConfluences(n, k) ==
    IF k < 0 THEN <<>>
    ELSE IF n.confluence[k] = 1 THEN InsertByDA(n, SortedConfluences(n, k - 1), k)
    ELSE SortedConfluences(n, k - 1)

\* faulty variant of Remove: the confluence stays on the pending list
RemoveNothing(l, e) == l

\* list.remove(x): the first occurrence
RECURSIVE Remove(_, _)
Remove(l, e) ==
    IF l = <<>> THEN <<>>
    ELSE IF Head(l) = e THEN Tail(l) ELSE <<Head(l)>> \o Remove(Tail(l), e)

\* faulty variant of upstream_ready: only the first upstream reach is tested
upstream_ready_first(R, n, t, c) ==
    ~(R.outdf[t][find_us_seg(n, c)].Qs_out["mid"] = Sentinel)

\* the readiness test of line 872
upstream_ready(R, n, t, c) ==
    ~(R.outdf[t][find_us_seg(n, c)].Qs_out["mid"] = Sentinel
        \/ R.outdf[t][find_us_seg2(n, c)].Qs_out["mid"] = Sentinel)

\* faulty variant of first_order_next: the walk does not stop at a confluence
first_order_next_through(n, sg) ==
    LET next_reach == get_next_reach(n, sg)
    IN  IF next_reach # None THEN next_reach ELSE get_next_chain(n, sg)

\* the next segment of the first-order walk (lines 841-850)
first_order_next(n, sg) ==
    LET next_reach == get_next_reach(n, sg)
    IN  IF next_reach # None
        THEN IF n.confluence[next_reach] = 1 THEN get_next_chain(n, next_reach) ELSE next_reach
        ELSE get_next_chain(n, sg)

\* the next segment of the walk below a confluence (lines 880-890)
chain_next(n, sg) ==
    LET next_reach == get_next_reach(n, sg)
    IN  IF next_reach # None /\ n.confluence[next_reach] = 1 THEN None ELSE next_reach

\* run_model: "while time <= total_t", the sentinel reset, run_first_order begins
StartDay ==
    /\ pc = "day" /\ time <= net.total_t
    /\ full' = reset_day(full, net, time)
    /\ solo' = reset_day(solo, net, time)
    /\ seg' = seg_id_from_rid(net, 1, 1)
    /\ evals' = [i \in Segs(net) |-> 0]
    /\ early' = {}
    /\ stalled' = FALSE
    /\ pc' = "first_order"
    /\ UNCHANGED <<net, time, conf_list, idx, x, ret, scan_len, aux, hydrographs, flow_ret>>

\* run_first_order: one turn of "while seg is not None"
FirstOrder ==
    /\ pc = "first_order" /\ seg # None
    /\ \E h \in net.hyd[seg] : Evaluate(h)
    /\ seg' = first_order_next(net, seg)
    /\ UNCHANGED <<net, time, pc, conf_list, idx, x, ret, scan_len, stalled, hydrographs, flow_ret>>

\* run_first_order returns; run_below_confluences sorts the confluences
BeginBelow ==
    /\ pc = "first_order" /\ seg = None
    /\ conf_list' = SortedConfluences(net, net.n - 1)
    /\ pc' = "while"
    /\ UNCHANGED <<net, time, seg, idx, x, full, solo, ret, evals, early, scan_len, stalled, aux, hydrographs, flow_ret>>

\* "while len(conf_list) > 0": a scan of the list begins
StartScan ==
    /\ pc = "while" /\ Len(conf_list) > 0
    /\ idx' = 0
    /\ scan_len' = Len(conf_list)
    /\ pc' = "for"
    /\ UNCHANGED <<net, time, seg, conf_list, x, full, solo, ret, evals, early, stalled, aux, hydrographs, flow_ret>>

\* "for x in conf_list": an upstream reach is not evaluated yet, pass
ScanSkip ==
    /\ pc = "for" /\ idx < Len(conf_list)
    /\ ~upstream_ready(full, net, time, conf_list[idx + 1])
    /\ x' = conf_list[idx + 1]
    /\ idx' = idx + 1
    /\ UNCHANGED <<net, time, pc, seg, conf_list, full, solo, ret, evals, early, scan_len, stalled, aux, hydrographs, flow_ret>>

\* "for x in conf_list": both upstream reaches are evaluated, walk from x
ScanTake ==
    /\ pc = "for" /\ idx < Len(conf_list)
    /\ upstream_ready(full, net, time, conf_list[idx + 1])
    /\ x' = conf_list[idx + 1]
    /\ seg' = conf_list[idx + 1]
    /\ idx' = idx + 1
    /\ pc' = "chain"
    /\ UNCHANGED <<net, time, conf_list, full, solo, ret, evals, early, scan_len, stalled, aux, hydrographs, flow_ret>>

\* one turn of the inner "while seg is not None"
ChainStep ==
    /\ pc = "chain" /\ seg # None
    /\ \E h \in net.hyd[seg] : Evaluate(h)
    /\ seg' = chain_next(net, seg)
    /\ UNCHANGED <<net, time, pc, conf_list, idx, x, ret, scan_len, stalled, hydrographs, flow_ret>>

\* conf_list.remove(x), while the for loop is iterating conf_list
ChainDone ==
    /\ pc = "chain" /\ seg = None
    /\ conf_list' = Remove(conf_list, x)
    /\ pc' = "for"
    /\ UNCHANGED <<net, time, seg, idx, x, full, solo, ret, evals, early, scan_len, stalled, aux, hydrographs, flow_ret>>

\* the for loop is exhausted; back to "while len(conf_list) > 0"
EndScan ==
    /\ pc = "for" /\ idx >= Len(conf_list)
    /\ pc' = "while"
    /\ stalled' = (Len(conf_list) = scan_len)
    /\ UNCHANGED <<net, time, seg, conf_list, idx, x, full, solo, ret, evals, early, scan_len, aux, hydrographs, flow_ret>>

\* run_below_confluences returns; time += 1
EndDay ==
    /\ pc = "while" /\ Len(conf_list) = 0
    /\ time' = time + 1
    /\ pc' = "day"
    /\ UNCHANGED <<net, seg, conf_list, idx, x, full, solo, ret, evals, early, scan_len, stalled, aux, hydrographs, flow_ret>>

\* faulty variant of spinup_network: nothing is written back
spinup_nothing(R, n) == R

\* the spinup write-back of lines 934-948
spinup_network(R, n) ==
    [R EXCEPT !.Slope = [i \in Segs(n) |-> [s \in Scen |-> R.Slope[i]["mid"]]],
              !.fpt = [i \in Segs(n) |-> [s \in Scen |-> R.fpt[i]["mid"]]]]

\* the day loop ends: the spinup write-back, or the table is returned
Finish ==
    /\ pc = "day" /\ time > net.total_t
    /\ full' = IF net.spinup THEN spinup_network(full, net) ELSE full
    /\ solo' = IF net.spinup THEN spinup_network(solo, net) ELSE solo
    /\ ret' = IF net.spinup
              THEN <<[i \in Segs(net) |-> full.outdf[net.total_t][i].Store_chan["mid"]]>>
              ELSE <<full.outdf>>
    /\ pc' = "done"
    /\ UNCHANGED <<net, time, seg, conf_list, idx, x, evals, early, scan_len, stalled, aux, hydrographs, flow_ret>>

Next ==
    \/ StartDay
    \/ FirstOrder
    \/ BeginBelow
    \/ StartScan
    \/ ScanSkip
    \/ ScanTake
    \/ ChainStep
    \/ ChainDone
    \/ EndScan
    \/ EndDay
    \/ Finish

InitWith(setups) ==
    /\ net \in setups
    /\ time = 1
    /\ pc = "day"
    /\ seg = None
    /\ conf_list = <<>>
    /\ idx = 0
    /\ x = None
    /\ full = InitRun(net)
    /\ solo = InitRun(net)
    /\ ret = <<>>
    /\ evals = [i \in Segs(net) |-> 0]
    /\ early = {}
    /\ scan_len = 0
    /\ stalled = FALSE
    /\ aux = <<>>
    /\ hydrographs = <<>>
    /\ flow_ret = <<>>

----------------------------------------------------------------------------
(* Setups: the networks, hydrograph lengths and hydraulics of the runs.    *)

ShortDays == 2        \* days of the runs whose hydraulics vary from day to day
LongDays == 5         \* days of the runs with constant hydraulics

Tri(a, b, c) == [s \in Scen |-> CASE s = "min" -> a [] s = "mid" -> b [] OTHER -> c]
Same(a) == Tri(a, a, a)
Col(seq) == [i \in 0..(Len(seq) - 1) |-> seq[i + 1]]
All(n, v) == [i \in 0..(n - 1) |-> v]

Hyd(flow, qs_dir, cap, depth, mig, fp_ratio, veld) ==
    [flow |-> flow, qs_dir |-> qs_dir, cap |-> cap, depth |-> depth,
     mig |-> mig, fp_ratio |-> fp_ratio, veld |-> veld]

\* a confined network without floodplain, disturbance or dam
Network(chain, us, us2, da, days, hyd) ==
    LET n == Len(us)
    IN  [n |-> n, chain |-> chain, us |-> Col(us), us2 |-> Col(us2),
         confluence |-> [i \in 0..(n - 1) |-> IF us2[i + 1] # None THEN 1 ELSE 0],
         Drain_Area |-> Col(da), eff_DA |-> Col(da),
         confine |-> All(n, 1), fp_area |-> All(n, 0), direct_DA |-> All(n, 1),
         dist_start |-> All(n, Sentinel), dist_end |-> All(n, Sentinel),
         Length_m |-> All(n, 1), w_bf |-> All(n, 2),
         has_chan_store |-> FALSE, chan_store |-> All(n, 0),
         total_t |-> days, spinup |-> FALSE,
         Slope |-> All(n, Same(10)), fpt |-> All(n, Same(0)),
         hyd |-> hyd]

\* topologies: one reach; a chain of two; two headwaters and an outlet; the
\* same with a reach below the outlet; three confluences in series; a
\* tributary with a tributary; the same with the lower confluence listed first
One(days, hyd) == Network(<<<<0>>>>, <<None>>, <<None>>, <<1>>, days, hyd)
Two(days, hyd) == Network(<<<<0, 1>>>>, <<None, 0>>, <<None, None>>, <<1, 2>>, days, hyd)
Wye(days, hyd) ==
    Network(<<<<0, 2>>, <<1>>>>, <<None, None, 0>>, <<None, None, 1>>, <<1, 1, 2>>, days, hyd)
WyeTail(days, hyd) ==
    Network(<<<<0, 2, 3>>, <<1>>>>, <<None, None, 0, 2>>, <<None, None, 1, None>>,
            <<1, 1, 2, 3>>, days, hyd)
Series(days, hyd) ==
    Network(<<<<0, 4, 5, 6>>, <<1>>, <<2>>, <<3>>>>,
            <<None, None, None, None, 0, 4, 5>>, <<None, None, None, None, 1, 2, 3>>,
            <<1, 1, 1, 1, 2, 3, 4>>, days, hyd)
Nested(days, hyd) ==
    Network(<<<<0, 4>>, <<1, 3>>, <<2>>>>,
            <<None, None, None, 1, 0>>, <<None, None, None, 2, 3>>,
            <<1, 1, 1, 2, 3>>, days, hyd)
Tied(days, hyd) ==
    Network(<<<<0, 3>>, <<1, 4>>, <<2>>>>,
            <<None, None, None, 0, 1>>, <<None, None, None, 4, 2>>,
            <<1, 1, 1, 3, 3>>, days, hyd)

\* capacity above supply on a confined reach: all supply passes through
Quiet == Hyd(1, 1000, Same(9000), Same(0), Same(0), Same(0), 3)
\* capacity below supply: the remainder is stored
Choked == Hyd(1, 3000, Tri(1000, 2000, 3000), Same(0), Same(0), Same(0), 3)

SchedSetups ==
    {One(ShortDays, All(1, {Quiet, Choked})),
     Two(ShortDays, All(2, {Quiet, Choked})),
     Wye(ShortDays, All(3, {Quiet, Choked})),
     WyeTail(ShortDays, All(4, {Quiet})),
     Series(ShortDays, All(7, {Quiet})),
     Nested(ShortDays, All(5, {Quiet})),
     Tied(ShortDays, All(5, {Quiet}))}

\* network variants: a disturbance window opening on day start at reach i, a
\* dam below reach i (the next reach has the smaller effective drainage
\* area), an unconfined reach with floodplain (area 1, thickness fpt)
Disturbed(n, i, start) == [n EXCEPT !.dist_start[i] = start, !.dist_end[i] = n.total_t]
\* a disturbance window from day start to day end at reach i
Window(n, i, start, end) == [n EXCEPT !.dist_start[i] = start, !.dist_end[i] = end]
\* a calibration run: run_model(spinup=True)
Calibration(n) == [n EXCEPT !.spinup = TRUE]
\* a floodplain thickness column other than 0 at reach i
Terrace(n, i, fpt) == [n EXCEPT !.fpt[i] = Same(fpt)]
Dammed(n, i) == [n EXCEPT !.eff_DA[i] = 9]
Unconfined(n, i, da, fpt) ==
    [n EXCEPT !.confine[i] = 0, !.fp_area[i] = 1, !.direct_DA[i] = da, !.fpt[i] = Same(fpt)]

\* supply of a headwater equal to its capacity
Even == Hyd(1, 1000, Same(1000), Same(0), Same(0), Same(0), 3)
\* a large delivery against small capacities; no delivery
Surge == Hyd(1, 3000, Tri(1000, 1200, 1500), Same(0), Same(0), Same(0), 3)
Idle == Hyd(1, 0, Tri(1000, 1200, 1500), Same(0), Same(0), Same(0), 3)
\* overbank flow with bank migration, capacity above supply
Flood == Hyd(1, 1000, Same(9000), Same(9000), Same(1), Same(1), 3)
\* in-bank flow with bank migration, capacity above supply
Bank == Hyd(1, 1000, Same(9000), Same(0), Same(1), Same(0), 3)
\* in-bank and overbank flow against small capacities on a floodplain reach
Clog == Hyd(1, 1000, Same(0), Same(0), Same(0), Same(1), 3)
Spill == Hyd(1, 1000, Same(0), Same(9000), Same(0), Same(1), 3)
\* the hillslope delivery of an unconfined reach split 800 / 200
Split == Hyd(1, 1000, Same(800), Same(0), Same(0), Same(0), 3)
\* all delivery to the floodplain, nothing to carry
Still == Hyd(1, 1000, Same(0), Same(0), Same(0), Same(0), 3)

\* a large delivery moving one reach length a day
Slow == Hyd(1, 3000, Tri(500, 600, 700), Same(0), Same(0), Same(0), 1)
\* bank migration with the three scenarios in three different branches
Mixed == Hyd(1, 3000, Tri(1000, 2400, 3000), Same(0), Same(1), Same(0), 3)

\* a delivery between one and two times the high capacity
Brim == Hyd(1, 1000, Tri(200, 600, 700), Same(0), Same(0), Same(0), 1)

\* overbank flow that takes the whole remainder to the floodplain
Overtop == Hyd(1, 1000, Tri(0, 600, 700), Same(9000), Same(0), Same(1), 1)

\* runs with sediment pulses
PulseSetups ==
    {Disturbed(One(ShortDays, All(1, {Surge, Idle, Choked})), 0, 1),
     Disturbed(Disturbed(Two(ShortDays, All(2, {Surge, Idle})), 0, 1), 1, 2),
     Dammed(Disturbed(Two(ShortDays, All(2, {Surge, Choked})), 0, 1), 0)}

\* runs with a dam, with floodplain reaches
ReachSetups ==
    {Dammed(Two(ShortDays, All(2, {Quiet, Choked, Even})), 0),
     Dammed(Wye(ShortDays, All(3, {Quiet, Even})), 0),
     One(ShortDays, All(1, {Quiet, Choked, Even})),
     Unconfined(One(ShortDays, All(1, {Flood, Bank, Clog, Spill, Still})), 0, 1, 2000),
     Unconfined(Two(ShortDays, Col(<<{Choked}, {Flood, Bank}>>)), 1, 4, 1000)}

\* runs with constant hydraulics
SteadySetups ==
    {One(LongDays, All(1, {Even, Choked})),
     Two(LongDays, Col(<<{Even}, {Hyd(1, 1000, Same(2000), Same(0), Same(0), Same(0), 3)}>>)),
     Unconfined(One(LongDays, All(1, {Still})), 0, 1, 0),
     Unconfined(One(LongDays, All(1, {Split, Choked})), 0, 4, 0),
     Wye(LongDays, All(3, {Quiet})),
     Wye(LongDays, Col(<<{Quiet}, {Idle}, {Quiet}>>)),
     Unconfined(Wye(LongDays, All(3, {Bank})), 2, 1, 8000),
     Unconfined(Wye(LongDays, All(3, {Flood})), 2, 1, 1000)}

\* runs with a closed disturbance window, slow pulses, calibration runs and
\* a confined reach with a thickness column
MoreSetups ==
    {Disturbed(One(ShortDays, All(1, {Quiet, Slow})), 0, 1),
     Window(One(ShortDays, All(1, {Surge, Idle})), 0, 1, 1),
     Calibration(One(ShortDays, All(1, {Choked, Quiet}))),
     Calibration(Unconfined(One(ShortDays, All(1, {Mixed})), 0, 4, 1000)),
     Calibration(Wye(ShortDays, All(3, {Choked}))),
     Terrace(One(ShortDays, All(1, {Choked, Quiet, Even})), 0, 5),
     Disturbed(One(ShortDays, All(1, {Brim})), 0, 1),
     Unconfined(Disturbed(One(ShortDays, All(1, {Overtop, Bank})), 0, 1), 0, 4, 0),
     Disturbed(Disturbed(Two(ShortDays, All(2, {Surge, Idle})), 0, 1), 1, 1)}

Setups == SchedSetups \cup PulseSetups \cup ReachSetups \cup SteadySetups \cup MoreSetups

Init == InitWith(Setups)
Spec == Init /\ [][Next]_vars

\* a malformed network: the second upstream reach of confluence 2 is reach 3,
\* which lies below it (a cycle)
Cyclic(days, hyd) ==
    Network(<<<<0, 2, 3>>, <<1>>>>, <<None, None, 0, 2>>, <<None, None, 3, None>>,
            <<1, 1, 2, 3>>, days, hyd)

MalformedSetups == {Cyclic(ShortDays, All(4, {Quiet, Choked}))}

\* the control position of the run; every step of Next changes it
ctl == <<pc, seg, idx>>

\* the interpreter moves on: until run_model has returned, the control
\* position changes
Advance ==
    /\ pc # "done"
    /\ pc' \in {"day", "first_order", "while", "for", "chain", "done"}
    /\ seg' \in Segs(net) \cup {None}
    /\ idx' \in 0..net.n

\* the scheduler with the fairness of a running program: while run_model has
\* not returned, a next step is taken
FairSpec == InitWith(SchedSetups) /\ [][Next]_vars /\ WF_ctl(Advance)

\* the scheduler on well-formed and malformed networks, with the same fairness
MalformedSpec ==
    InitWith(SchedSetups \cup MalformedSetups) /\ [][Next]_vars /\ WF_ctl(Advance)

----------------------------------------------------------------------------
(* Claims.                                                                 *)

DayOver == pc \in {"day", "done"} /\ time > 1

\* C1: on every day run_first_order followed by run_below_confluences calls
\* apply_to_reach exactly once for every reach: never twice during the day,
\* and once for each reach when the day is over.
C1_EveryReachOnce ==
    /\ \A i \in Segs(net) : evals[i] <= 1
    /\ DayOver => \A i \in Segs(net) : evals[i] = 1

\* a day is over on the network with three confluences in series, where the
\* removal of the first confluence makes the for loop step over the second
C1_Witness ==
    /\ DayOver /\ net.n = 7
    /\ \A i \in Segs(net) : evals[i] = 1

\* C2: whenever apply_to_reach(seg, day) runs, each immediate upstream reach of
\* seg has been evaluated that day: no evaluation reads the sentinel as an
\* upstream export.
C2_UpstreamFirst == early = {}

\* a confluence below another confluence has been evaluated, and no evaluation
\* of the day read a sentinel
C2_Witness ==
    /\ early = {}
    /\ \E i \in Segs(net) :
          /\ net.confluence[i] = 1 /\ evals[i] = 1
          /\ \E u \in {net.us[i], net.us2[i]} : u # None /\ net.confluence[u] = 1

\* C3: on a tree network every scan of the pending list removes at least one
\* confluence, and the retry loop ends: the day completes.
C3_ScanProgress ==
    /\ [][(pc = "for" /\ pc' = "while") => Len(conf_list') < scan_len]_vars
    /\ [](pc = "while" => <>(pc = "day"))

\* the retry loop ended after more than one scan: the list is empty and the
\* last scan began with one confluence on a network with two
C3_Witness ==
    /\ pc = "while" /\ conf_list = <<>> /\ scan_len = 1
    /\ Cardinality({i \in Segs(net) : net.confluence[i] = 1}) = 2

\* C4: a confluence that can never become ready ends the run in a fatal
\* configuration-error state: after a scan that removed nothing the run
\* reaches that state instead of scanning the pending list forever.
C4_BlockedIsFatal == stalled ~> (pc = "failed")

\* a scan that removed nothing was followed by another scan of the same list
C4_Spinning ==
    /\ stalled /\ pc = "for" /\ scan_len = Len(conf_list)
    /\ \E i \in Segs(net) : net.us2[i] # None /\ evals[i] = 0

----------------------------------------------------------------------------
(* Reading the recorded evaluations: k = <<day, segment>>.                 *)

Row(k) == full.outdf[k[1]][k[2]]
Headwater(i) == net.us[i] = None /\ net.us2[i] = None
NoWindow(i) == net.dist_start[i] = Sentinel
AtDam(i) ==
    /\ get_next_reach(net, i) # None
    /\ net.eff_DA[get_next_reach(net, i)] < net.eff_DA[i]

\* the mid-scenario outputs of an evaluation
MidOf(R, k) ==
    LET row == R.outdf[k[1]][k[2]]
    IN  <<row.Qs["mid"], row.Qs_out["mid"], row.CSR["mid"], row.Store_chan["mid"],
          row.Store_tot["mid"], row.Store_delta["mid"]>>

\* C5: the mid-scenario outputs (Qs, Qs_out, CSR, Store_chan, Store_tot,
\* Store_delta, Slope, fpt) of the three-scenario run equal those of the run
\* that computes the mid scenario only.
C5_MidIndependent ==
    /\ \A k \in DOMAIN aux : MidOf(full, k) = MidOf(solo, k)
    /\ \A i \in Segs(net) :
          /\ full.Slope[i]["mid"] = solo.Slope[i]["mid"]
          /\ full.fpt[i]["mid"] = solo.fpt[i]["mid"]

\* C6: on a reach in its disturbance window, after update_seg_dict and one
\* pulse_propagate call the mass left in the ledger is the resident mass
\* (floored at zero) plus the merged upstream transfer entries minus the
\* returned export, and the mass on the transfer-out list is that export.
C6_LedgerConserved ==
    \A k \in DOMAIN aux :
        aux[k].dist =>
            /\ aux[k].left = Max2(0, aux[k].resident) + aux[k].merged - aux[k].exported
            /\ aux[k].handed = aux[k].exported

\* the first half of C6 alone
C6_LedgerMass ==
    \A k \in DOMAIN aux :
        aux[k].dist =>
            aux[k].left = Max2(0, aux[k].resident) + aux[k].merged - aux[k].exported

\* C7: a headwater reach without disturbance window and not at a dam whose
\* supply equals its transport capacity records an export equal to the
\* supply and a channel storage of 0, in each scenario.
C7_BalancedHeadwater ==
    \A k \in DOMAIN aux : \A s \in Scen :
        (/\ Headwater(k[2]) /\ NoWindow(k[2]) /\ ~AtDam(k[2])
         /\ aux[k].b[s].supply = aux[k].h.cap[s])
        => /\ Row(k).Qs_out[s] = aux[k].b[s].supply
           /\ Row(k).Qs[s] = aux[k].b[s].supply
           /\ Row(k).Store_chan[s] = 0

\* a headwater evaluated with a positive supply equal to the capacity in all
\* three scenarios
C7_Witness ==
    \E k \in DOMAIN aux :
        /\ Headwater(k[2]) /\ NoWindow(k[2]) /\ ~AtDam(k[2])
        /\ \A s \in Scen :
              /\ aux[k].b[s].supply = aux[k].h.cap[s] /\ aux[k].b[s].supply > 0
              /\ Row(k).Qs_out[s] = aux[k].b[s].supply

Steady(k, s) ==
    /\ NoWindow(k[2])
    /\ \A d \in 1..k[1] :
          /\ aux[<<d, k[2]>>].h.flow = aux[k].h.flow
          /\ aux[<<d, k[2]>>].b[s].supply = aux[<<d, k[2]>>].h.cap[s]

\* C9: a reach with constant discharge, no disturbance and supply equal to
\* capacity on every day has storage delta 0 on every day after the first,
\* whatever its configuration.
C9_SteadyNoDelta ==
    \A k \in DOMAIN aux : \A s \in Scen :
        (k[1] >= 2 /\ Steady(k, s)) => Row(k).Store_delta[s] = 0

\* C9 as amended: on every day after the first the storage delta of such a
\* reach is the hillslope delivery that went to its floodplain that day
\* (0 on a confined reach, without floodplain area or without delivery).
C9_SteadyDeltaIsFloodplainInput ==
    \A k \in DOMAIN aux : \A s \in Scen :
        (k[1] >= 2 /\ Steady(k, s)) => Row(k).Store_delta[s] = aux[k].qs_fp

\* a steady unconfined reach on its third day, with floodplain input
C9_Witness ==
    \E k \in DOMAIN aux :
        /\ k[1] >= 3 /\ net.confine[k[2]] # 1 /\ aux[k].qs_fp > 0
        /\ \A s \in Scen : Steady(k, s) /\ Row(k).Store_delta[s] = aux[k].qs_fp

\* a ratio below, above 1
LessOne(r) == r.n * r.d < r.d * r.d
MoreOne(r) == r.n * r.d > r.d * r.d

\* two headwaters joining one outlet reach, LongDays days, no disturbance,
\* constant discharge and supply below capacity in every evaluation so far
WyeBelowCapacity ==
    /\ net.n = 3 /\ Headwater(0) /\ Headwater(1)
    /\ {net.us[2], net.us2[2]} = {0, 1}
    /\ net.total_t = LongDays
    /\ \A i \in Segs(net) : NoWindow(i)
    /\ \A k \in DOMAIN aux :
          /\ aux[k].h.flow = aux[<<1, k[2]>>].h.flow
          /\ \A s \in Scen : aux[k].b[s].supply < aux[k].h.cap[s]

\* C10: in such a run every recorded channel storage is 0 and every recorded
\* CSR is below 1.
C10_StorageZeroCsrBelowOne ==
    WyeBelowCapacity =>
        \A k \in DOMAIN aux : \A s \in Scen :
            Row(k).Store_chan[s] = 0 /\ LessOne(Row(k).CSR[s])

\* C10 as amended: every recorded channel storage is 0, and every recorded
\* CSR of an evaluation with positive supply and without floodplain
\* recruitment is above 1.
C10_StorageZeroCsrAboveOne ==
    WyeBelowCapacity =>
        \A k \in DOMAIN aux : \A s \in Scen :
            /\ Row(k).Store_chan[s] = 0
            /\ (aux[k].b[s].supply > 0 /\ aux[k].b[s].fp_recr = 0)
                  => MoreOne(Row(k).CSR[s])

\* the five days of such a run are over, with positive supply everywhere
C10_Witness ==
    /\ WyeBelowCapacity /\ pc = "done"
    /\ \A k \in DOMAIN aux : \A s \in Scen :
          aux[k].b[s].supply > 0 /\ MoreOne(Row(k).CSR[s])
    /\ aux[<<LongDays, 2>>].b["mid"].supply = 3000

\* the same-day export of the immediate upstream reaches of k[2] in scenario s
UpstreamExport(k, s) ==
    LET us == find_us_seg(net, k[2])
        us2 == find_us_seg2(net, k[2])
    IN  (IF us # None THEN Row(<<k[1], us>>).Qs_out[s] ELSE 0)
        + (IF us2 # None THEN Row(<<k[1], us2>>).Qs_out[s] ELSE 0)

\* two headwaters joining one outlet reach, no channel storage recorded
WyeNoStorage ==
    /\ net.n = 3 /\ Headwater(0) /\ Headwater(1)
    /\ {net.us[2], net.us2[2]} = {0, 1}
    /\ \A k \in DOMAIN aux : \A s \in Scen : Row(k).Store_chan[s] = 0

\* the supply recorded for a scenario is the channel part of the hillslope
\* delivery plus the same scenario's upstream exports plus its previous storage
C11_SupplyOwnScenario ==
    \A k \in DOMAIN aux : \A s \in Scen :
        Row(k).Qs[s] = aux[k].qs_channel + UpstreamExport(k, s) + aux[k].prev[s]

\* the outlet of the 3-reach network without channel storage
C11_OutletSupply ==
    WyeNoStorage =>
        \A k \in DOMAIN aux : \A s \in Scen :
            k[2] = 2 =>
                Row(k).Qs[s] = Row(<<k[1], 0>>).Qs_out[s] + Row(<<k[1], 1>>).Qs_out[s]
                                + aux[k].qs_channel

\* C11: every upstream input a scenario block uses is the sum of the same
\* day's exports of the immediate upstream reaches in the same scenario (0
\* for a headwater), and the outlet of the 3-reach network without channel
\* storage records as supply both headwaters' exports plus its own input.
C11_UpstreamInputOwnScenario ==
    /\ \A k \in DOMAIN aux : \A s \in Scen :
          \A v \in aux[k].b[s].us_read : v = UpstreamExport(k, s)
    /\ C11_OutletSupply

\* two ratios with non-zero denominators denote the same number
SameRatio(a, b) == a.n * b.d = b.n * a.d

\* capacity over supply, with the convention for a supply of 0
CapacityOver(cap, supply) ==
    IF supply = 0 THEN (IF cap > 0 THEN Ratio(cap, 1) ELSE Ratio(1, 1))
    ELSE Ratio(cap, supply)

\* C12: the CSR written equals the scenario's transport capacity divided by
\* the supply written in the same record, with the convention for a supply
\* of 0, in all three branches.
C12_CsrIsCapacityOverSupply ==
    \A k \in DOMAIN aux : \A s \in Scen :
        SameRatio(Row(k).CSR[s], CapacityOver(aux[k].h.cap[s], Row(k).Qs[s]))

\* C12 as amended: in the transport-limited and capacity-limited branches the
\* CSR written is the capacity divided by the supply written plus the
\* floodplain recruitment of the step (0 outside the unconfined
\* capacity-limited branch), with the convention applied to that sum; in the
\* branch of equal supply and capacity it is 1.
C12_CsrCountsRecruitment ==
    \A k \in DOMAIN aux : \A s \in Scen :
        IF aux[k].b[s].branch = "balanced"
        THEN SameRatio(Row(k).CSR[s], Ratio(1, 1))
        ELSE SameRatio(Row(k).CSR[s],
                       CapacityOver(aux[k].h.cap[s], Row(k).Qs[s] + aux[k].b[s].fp_recr))

\* an unconfined capacity-limited evaluation with floodplain recruitment
C12_Witness ==
    \E k \in DOMAIN aux : \E s \in Scen :
        /\ aux[k].b[s].branch = "capacity" /\ aux[k].b[s].fp_recr > 0
        /\ Row(k).Qs[s] > 0
        /\ SameRatio(Row(k).CSR[s],
                     Ratio(aux[k].h.cap[s], Row(k).Qs[s] + aux[k].b[s].fp_recr))
        /\ ~SameRatio(Row(k).CSR[s], Ratio(aux[k].h.cap[s], Row(k).Qs[s]))

\* C13: when run_model(spinup=True) finishes, the low and high bed slope of
\* every reach are the mid bed slope the run computed, the low and high
\* floodplain thickness are the mid thickness, and the value returned is,
\* per segment in segment-id order, the mid channel storage of the last day.
C13_SpinupConverges ==
    [][(pc' = "done" /\ net.spinup) =>
          /\ \A i \in Segs(net) : \A s \in Scen :
                /\ full'.Slope[i][s] = full.Slope[i]["mid"]
                /\ full'.fpt[i][s] = full.fpt[i]["mid"]
          /\ ret' = <<[i \in Segs(net) |-> full.outdf[net.total_t][i].Store_chan["mid"]]>>]_vars

\* a calibration run has finished on a reach whose low and mid slope and whose
\* high and mid thickness differed after the last evaluation
C13_Witness ==
    /\ pc = "done" /\ net.spinup
    /\ \E i \in Segs(net) :
          LET last == aux[<<net.total_t, i>>].b
          IN  /\ last["min"].slope # last["mid"].slope
              /\ last["max"].fpt # last["mid"].fpt
              /\ full.Slope[i]["min"] = last["mid"].slope
              /\ full.fpt[i]["max"] = last["mid"].fpt
              /\ ret[1][i] = full.outdf[net.total_t][i].Store_chan["mid"]

\* C14: for a non-trivial ledger and a positive capacity, the remaining
\* capacity pulse_propagate returns is the capacity passed in minus the
\* exported mass it returns, so the export never exceeds the capacity.
C14_CapacityDecremented ==
    \A k \in DOMAIN aux :
        (aux[k].dist /\ ~aux[k].trivial /\ aux[k].h.cap["min"] > 0)
        => /\ aux[k].remain = aux[k].h.cap["min"] - aux[k].exported
           /\ aux[k].exported <= aux[k].h.cap["min"]

\* a call that moved an entry whole
C14_WholeMove ==
    \E k \in DOMAIN aux :
        /\ aux[k].dist /\ ~aux[k].trivial
        /\ aux[k].exported > 0 /\ aux[k].remain = aux[k].h.cap["min"]

\* C15: every entry on the transfer-out list of an evaluated reach has a
\* strictly positive remaining distance: an entry whose distance minus the
\* reach length is not positive is not handed on, whole or in part.
C15_HandedOnHasDistance ==
    \A k \in DOMAIN aux :
        aux[k].dist => \A j \in 1..Len(aux[k].out1) : aux[k].out1[j].d > 0

\* C16: after the pulse propagation of a reach neither its ledger (other than
\* the placeholder [[0,0]]) nor its transfer-out list holds an entry of mass 0.
C16_NoZeroMassPulse ==
    \A k \in DOMAIN aux :
        aux[k].dist =>
            /\ \/ aux[k].ledger1 = <<Pulse(0, 0)>>
               \/ \A j \in 1..Len(aux[k].ledger1) : aux[k].ledger1[j].m # 0
            /\ \A j \in 1..Len(aux[k].out1) : aux[k].out1[j].m # 0

\* day k[1] lies in the disturbance window of reach k[2]
InWindow(k) ==
    /\ net.dist_start[k[2]] # Sentinel
    /\ net.dist_start[k[2]] <= k[1] /\ k[1] <= net.dist_end[k[2]]

\* C17: a reach gets a new pulse and runs the ledger update and the pulse
\* propagation on day t only when dist_start <= t <= dist_end; on other days
\* and on reaches without window the ledgers are left alone and the full
\* capacity enters the supply-vs-capacity decision with no pulse export.
C17_PulseOnlyInWindow ==
    \A k \in DOMAIN aux :
        /\ aux[k].dist => InWindow(k)
        /\ ~InWindow(k) =>
              /\ aux[k].ledger_kept
              /\ \A s \in Scen : aux[k].b[s].tr = aux[k].h.cap[s] /\ aux[k].b[s].po = 0

\* a reach was evaluated after its window had closed and exported a pulse
C17_AfterWindow ==
    \E k \in DOMAIN aux :
        /\ net.dist_start[k[2]] # Sentinel /\ k[1] > net.dist_end[k[2]]
        /\ aux[k].dist /\ ~aux[k].ledger_kept
        /\ \E s \in Scen : aux[k].b[s].po > 0

\* the reading of the code: the window opens on dist_start and never closes
C17_FromStartOn ==
    \A k \in DOMAIN aux :
        LET open == net.dist_start[k[2]] # Sentinel /\ net.dist_start[k[2]] <= k[1]
        IN  /\ aux[k].dist <=> open
            /\ ~open =>
                  /\ aux[k].ledger_kept
                  /\ \A s \in Scen : aux[k].b[s].tr = aux[k].h.cap[s] /\ aux[k].b[s].po = 0

\* C18: every write of day t (the sentinel reset and the writes of
\* apply_to_reach) touches only rows of day t, and an evaluation of seg on
\* day t only the row (t, seg): the rows of earlier days never change.
C18_EarlierRowsFrozen ==
    [][/\ \A d \in 1..net.total_t : d # time => full'.outdf[d] = full.outdf[d]
       /\ (pc \in {"first_order", "chain"} /\ seg # None) =>
             \A i \in Segs(net) : i # seg => full'.outdf[time][i] = full.outdf[time][i]]_vars

\* the second day is being evaluated above rows of the first day that hold
\* exports and storage
C18_Witness ==
    /\ time = 2 /\ <<2, 0>> \in DOMAIN aux /\ net.n > 1
    /\ full.outdf[1][0].Qs_out["mid"] > 0 /\ full.outdf[1][0].Store_chan["mid"] > 0
    /\ full.outdf[2][0].Store_chan["mid"] > full.outdf[1][0].Store_chan["mid"]

Confined(i) == net.confine[i] = 1

\* C19: slope and floodplain thickness are written back only for non-confined
\* reaches: the evaluation of a confined reach leaves its Slope_* and fpt_*
\* unchanged in every branch.
C19_ConfinedKeepsSlopeAndThickness ==
    \A k \in DOMAIN aux :
        Confined(k[2]) => aux[k].slope1 = aux[k].slope0 /\ aux[k].fpt1 = aux[k].fpt0

\* C19 as amended: the evaluation of a confined reach leaves its fpt_*
\* unchanged in every branch; its Slope_* is unchanged in the branch of equal
\* supply and capacity and is otherwise raised by delta_h / Length_m for the
\* change of channel storage, as on a non-confined reach.
C19_ConfinedKeepsThickness ==
    \A k \in DOMAIN aux :
        Confined(k[2]) =>
            /\ aux[k].fpt1 = aux[k].fpt0
            /\ \A s \in Scen :
                  aux[k].slope1[s] =
                      IF aux[k].b[s].branch = "balanced" THEN aux[k].slope0[s]
                      ELSE slope_plus(net, k[2], aux[k].slope0[s],
                                      Row(k).Store_chan[s] - aux[k].prev[s])

\* a confined reach with a thickness column was evaluated: one scenario
\* changed its slope, another took the balanced branch, the thickness stayed
C19_Witness ==
    \E k \in DOMAIN aux :
        /\ Confined(k[2]) /\ aux[k].fpt0["mid"] > 0 /\ aux[k].fpt1 = aux[k].fpt0
        /\ \E s \in Scen : aux[k].slope1[s] # aux[k].slope0[s]
        /\ \E s \in Scen : aux[k].b[s].branch = "balanced"

\* the evaluation k took the transport-limited branch in scenario s
Limited(k, s) == aux[k].b[s].branch = "limited"

\* C20: in the transport-limited branch the export before the dam override is,
\* in each of the three scenarios, that scenario's capacity plus that
\* scenario's pulse export, and on a confined reach or below the floodplain
\* thickness the channel storage is supply minus export.
C20_LimitedExportIsCapacityPlusPulse ==
    \A k \in DOMAIN aux : \A s \in Scen :
        Limited(k, s) =>
            /\ aux[k].b[s].qs_out_raw = aux[k].h.cap[s] + aux[k].b[s].po
            /\ (Confined(k[2]) \/ ~aux[k].b[s].overbank) =>
                   aux[k].b[s].channel_store = aux[k].b[s].supply - aux[k].b[s].qs_out_raw

\* the mid and high blocks: capacity plus pulse export
C20_MidHighExport ==
    \A k \in DOMAIN aux : \A s \in {"mid", "max"} :
        Limited(k, s) =>
            /\ aux[k].b[s].qs_out_raw = aux[k].h.cap[s] + aux[k].b[s].po
            /\ (Confined(k[2]) \/ ~aux[k].b[s].overbank) =>
                   aux[k].b[s].channel_store = aux[k].b[s].supply - aux[k].b[s].qs_out_raw

\* the low block: capacity left after the pulses plus pulse export
C20_LowExport ==
    \A k \in DOMAIN aux :
        Limited(k, "min") =>
            aux[k].b["min"].qs_out_raw = aux[k].b["min"].tr + aux[k].b["min"].po

\* a transport-limited low scenario whose pulses used up part of the capacity
C20_PulseUsedCapacity ==
    \E k \in DOMAIN aux :
        /\ Limited(k, "min") /\ aux[k].b["min"].po > 0
        /\ aux[k].b["min"].tr < aux[k].h.cap["min"]

\* the evaluation k took the capacity-limited branch in scenario s
Capacity(k, s) == aux[k].b[s].branch = "capacity"

\* C21: in the capacity-limited branch the channel storage recorded is 0 in
\* every scenario, on confined and unconfined reaches alike; on a confined
\* reach that is not at a dam and has no pulse export, the export recorded is
\* the supply recorded.
C21_CapacityLimitedStoresNothing ==
    \A k \in DOMAIN aux : \A s \in Scen :
        Capacity(k, s) =>
            /\ aux[k].b[s].channel_store = 0
            /\ Row(k).Store_chan[s] = 0
            /\ (Confined(k[2]) /\ ~AtDam(k[2]) /\ aux[k].b[s].po = 0) =>
                   /\ Row(k).Qs_out[s] = Row(k).Qs[s]
                   /\ Row(k).Qs[s] = aux[k].b[s].supply

\* a confined reach away from any dam passed on a positive supply that held
\* the storage of the day before
C21_Witness ==
    \E k \in DOMAIN aux : \E s \in Scen :
        /\ Capacity(k, s) /\ Confined(k[2]) /\ ~AtDam(k[2]) /\ aux[k].b[s].po = 0
        /\ aux[k].prev[s] > 0 /\ Row(k).Qs_out[s] > aux[k].prev[s]

----------------------------------------------------------------------------
(* get_flow on gauge tables: MaxGauges gauges on the reaches of a network   *)
(* with a confluence and a tail, or off the network.                        *)

MaxGauges == 2

GaugeNet == WyeTail(ShortDays, All(4, {Quiet}))

Gauges == {Gauge(i, r, 1, q) : i \in Segs(GaugeNet) \cup {Sentinel}, r \in {0, 1}, q \in {5}}

GaugeTables == UNION {[1..m -> Gauges] : m \in 1..MaxGauges}

FlowInit ==
    /\ net = GaugeNet
    /\ time = 1
    /\ pc = "day"
    /\ seg = None
    /\ conf_list = <<>>
    /\ idx = 0
    /\ x = None
    /\ full = InitRun(net)
    /\ solo = InitRun(net)
    /\ ret = <<>>
    /\ evals = [i \in Segs(net) |-> 0]
    /\ early = {}
    /\ scan_len = 0
    /\ stalled = FALSE
    /\ aux = <<>>
    /\ hydrographs \in GaugeTables
    /\ flow_ret = <<>>

\* apply_to_reach asks for the discharge of a reach
GetFlow ==
    /\ \E segid \in Segs(net) : flow_ret' = <<get_flow(net, hydrographs, segid)>>
    /\ UNCHANGED <<net, time, pc, seg, conf_list, idx, x, full, solo, ret, evals, early,
                   scan_len, stalled, aux, hydrographs>>

FlowSpec == FlowInit /\ [][GetFlow]_vars

\* the gauges of the table on reaches between gauge g and reach s, s included
Between(g, s) ==
    {j \in 1..Len(hydrographs) :
        /\ j # g
        /\ hydrographs[j].segid \in find_all_ds(net, hydrographs[g].segid)
        /\ hydrographs[j].segid \notin find_all_ds(net, s)}

InQ(g) == \E k \in 1..Len(flow_ret[1].from) : flow_ret[1].from[k] = g

\* C22: with more than one gauge, the reading of a regulated gauge enters a
\* reach's discharge exactly when the gauge is on the reach, or it is upstream
\* and as many gauges lie downstream of the gauge as gauges, regulated or
\* not, lie downstream of the reach; so an upstream regulated gauge counts
\* only with no other gauge between it and the reach, and no reading is
\* counted twice.
C22_RegulatedGaugeCounted ==
    (flow_ret # <<>> /\ Len(hydrographs) > 1) =>
        LET s == flow_ret[1].segid
        IN  /\ \A g \in Regulated(hydrographs) :
                  InQ(g) <=>
                      \/ hydrographs[g].segid = s
                      \/ /\ hydrographs[g].segid \in find_all_us(net, s)
                         /\ gage_ds(net, hydrographs, g) =
                               Cardinality(find_all_ds(net, s)
                                   \cap GaugeSegs(hydrographs, 1..Len(hydrographs)))
            /\ \A g \in Regulated(hydrographs) :
                  (InQ(g) /\ hydrographs[g].segid # s) => Between(g, s) = {}
            /\ \A j, k \in 1..Len(flow_ret[1].from) :
                  flow_ret[1].from[j] = flow_ret[1].from[k] => j = k

\* what holds of get_flow: an upstream regulated gauge counts exactly when no
\* gauged reach lies between it and the reach and no unregulated gauge lies
\* downstream of the reach, and no reading is counted twice
C22_RegulatedGaugeCountedUnlessUnregulatedBelow ==
    (flow_ret # <<>> /\ Len(hydrographs) > 1) =>
        LET s == flow_ret[1].segid
        IN  /\ \A g \in Regulated(hydrographs) :
                  InQ(g) <=>
                      \/ hydrographs[g].segid = s
                      \/ /\ hydrographs[g].segid \in find_all_us(net, s)
                         /\ Between(g, s) = {}
                         /\ find_all_ds(net, s) \cap GaugeSegs(hydrographs, 1..Len(hydrographs))
                               \subseteq GaugeSegs(hydrographs, Regulated(hydrographs))
            /\ \A j, k \in 1..Len(flow_ret[1].from) :
                  flow_ret[1].from[j] = flow_ret[1].from[k] => j = k

\* a regulated gauge right above the reach, an unregulated gauge below it, and
\* the regulated reading is left out
C22_ReadingLost ==
    /\ flow_ret # <<>> /\ Len(hydrographs) > 1
    /\ \E g \in Regulated(hydrographs) :
          /\ hydrographs[g].segid \in find_all_us(net, flow_ret[1].segid)
          /\ Between(g, flow_ret[1].segid) = {}
          /\ ~InQ(g)

\* C23: the channel storage written to the output table is never negative,
\* for every reach, day and scenario, reaches with an active pulse included.
C23_StorageNeverNegative ==
    \A k \in DOMAIN aux : \A s \in Scen : Row(k).Store_chan[s] >= 0

\* without a pulse export the storage written is never negative
C23_NoPulseNeverNegative ==
    \A k \in DOMAIN aux : \A s \in Scen :
        aux[k].b[s].po = 0 => Row(k).Store_chan[s] >= 0

\* a pulse took the whole capacity and the block exported the capacity again
C23_CapacityExportedTwice ==
    \E k \in DOMAIN aux : \E s \in Scen :
        /\ Limited(k, s) /\ aux[k].b[s].po > 0 /\ aux[k].b[s].tr = 0
        /\ aux[k].b[s].supply < aux[k].h.cap[s] + aux[k].b[s].po
        /\ Row(k).Store_chan[s] < 0

\* the floodplain storage of reach i at the start of the evaluation k
FloodplainBefore(k, s) == net.fp_area[k[2]] * aux[k].fpt0[s] * bulk_dens

\* C24: in the capacity-limited branch of an unconfined reach the recruitment
\* taken is at most the floodplain storage at the start of the step (area x
\* prior thickness x bulk density), and the floodplain storage and the
\* thickness written back after the step are not negative, in every scenario.
C24_RecruitmentWithinFloodplain ==
    \A k \in DOMAIN aux : \A s \in Scen :
        (Capacity(k, s) /\ ~Confined(k[2])) =>
            /\ aux[k].b[s].fp_recr <= FloodplainBefore(k, s)
            /\ aux[k].b[s].store_tot - aux[k].b[s].channel_store >= 0
            /\ aux[k].fpt1[s] >= 0

\* bank migration asked for more than the floodplain held: the whole
\* floodplain storage of the start of the step was recruited
C24_Witness ==
    \E k \in DOMAIN aux : \E s \in Scen :
        /\ Capacity(k, s) /\ ~Confined(k[2])
        /\ aux[k].h.mig[s] * (aux[k].fpt0[s] + aux[k].qs_fp) > FloodplainBefore(k, s)
        /\ FloodplainBefore(k, s) > 0
        /\ aux[k].b[s].fp_recr = FloodplainBefore(k, s)

\* the total mass of a list of pulses
MassOf(pulses) == SumSeq([j \in 1..Len(pulses) |-> pulses[j].m])

\* the mass the low, high and mid calls of pulse_propagate took off the ledger
Removed(k) == MassOf(aux[k].ledger0) - MassOf(aux[k].ledger1)

\* C25: on a day a reach propagates its pulses, the mass on its transfer-out
\* list after the low, high and mid calls of pulse_propagate is the mass the
\* three calls removed from its ledger.
C25_OutListHoldsAllRemoved ==
    \A k \in DOMAIN aux : aux[k].dist => MassOf(aux[k].out1) = Removed(k)

\* mass left the ledger in an earlier call and is not on the transfer-out list
C25_ExportOverwritten ==
    \E k \in DOMAIN aux :
        /\ aux[k].dist /\ aux[k].exported > 0
        /\ MassOf(aux[k].out1) < Removed(k)

\* C26: a pulse handed down by an upstream reach is merged into the
\* downstream ledger at most once: no entry update_seg_dict appends from an
\* upstream transfer-out list is an entry the ledger took on an earlier day.
C26_MergedAtMostOnce ==
    \A k \in DOMAIN aux : aux[k].dist => aux[k].remerged = <<>>

\* the upstream ledger was the placeholder, its transfer-out list was a day
\* old, and the ledger below took an entry with mass a second time
C26_MergedAgain ==
    \E k \in DOMAIN aux :
        /\ aux[k].dist /\ k[1] > 1 /\ aux[k].remerged # <<>> /\ aux[k].merged > 0
        /\ find_us_seg(net, k[2]) # None
        /\ aux[<<k[1], find_us_seg(net, k[2])>>].trivial

\* C27: for every reach not at a dam, every day and scenario, export plus
\* channel storage is at most the supply (channel input + upstream input +
\* previous channel storage) plus the floodplain recruitment; the pulse export
\* is not added on top of a supply that holds the same sediment.
C27_ReachMassBalance ==
    \A k \in DOMAIN aux : \A s \in Scen :
        ~AtDam(k[2]) =>
            Row(k).Qs_out[s] + Row(k).Store_chan[s] <= Row(k).Qs[s] + aux[k].b[s].fp_recr

\* without pulse export the balance holds
C27_BalanceWithoutPulse ==
    \A k \in DOMAIN aux : \A s \in Scen :
        (~AtDam(k[2]) /\ aux[k].b[s].po = 0) =>
            Row(k).Qs_out[s] + Row(k).Store_chan[s] <= Row(k).Qs[s] + aux[k].b[s].fp_recr

\* a capacity-limited reach exported its supply and the pulse on top of it
C27_PulseOnTop ==
    \E k \in DOMAIN aux : \E s \in Scen :
        /\ ~AtDam(k[2]) /\ Capacity(k, s) /\ Confined(k[2]) /\ aux[k].b[s].po > 0
        /\ Row(k).Qs_out[s] = Row(k).Qs[s] + aux[k].b[s].po

\* the ledger of the evaluation k took every pulse its upstream reaches offered
PickedUp(k) ==
    \A j \in 1..Len(aux[k].offered) :
        \E i \in 1..Len(aux[k].ledger0) : aux[k].ledger0[i] = aux[k].offered[j]

\* C28: whenever an upstream reach has pulses with mass on its transfer-out
\* list when the reach below is evaluated, that evaluation runs
\* update_seg_dict and takes them into its ledger, also on a reach without
\* disturbance window or before its window has started.
C28_HandedPulseIsMerged ==
    \A k \in DOMAIN aux : aux[k].merged > 0 => aux[k].dist /\ PickedUp(k)

\* inside its window the reach below takes what it is offered
C28_MergedInsideWindow ==
    \A k \in DOMAIN aux : (aux[k].merged > 0 /\ aux[k].dist) => PickedUp(k)

\* a reach without window, or before its window, was evaluated while its
\* upstream reach offered a pulse, and its ledger stayed as it was
C28_PulseNotTaken ==
    \E k \in DOMAIN aux :
        /\ aux[k].merged > 0 /\ ~aux[k].dist /\ aux[k].ledger_kept /\ ~PickedUp(k)

====
